---- MODULE Spec2Model ----
(***************************************************************************)
(* Model of the detection service of yolo_falsk_web: YOLODetector.detect   *)
(* (src/detector.py) as called by the Flask layer (src/app.py).            *)
(*                                                                         *)
(* A source string is a sequence of one-character strings, so that the     *)
(* string tests of _analyze_source (suffix, prefix, isnumeric, lower) are  *)
(* computed, not assumed.  A file name is a sequence of characters too.    *)
(***************************************************************************)
EXTENDS Naturals, Integers, Sequences, FiniteSets, TLC

(***************************************************************************)
(* Bounds of the model.                                                    *)
(***************************************************************************)
NCalls     == 2   \* detect() calls (web requests) that may overlap
MaxFiles   == 2   \* files a glob source matches
MaxFrames  == 2   \* frame records a video file or a stream yields
MaxStreams == 2   \* streams of a multi-stream source

Calls == 1..NCalls

(***************************************************************************)
(* Strings.                                                                *)
(***************************************************************************)
Digits == {"0", "1", "2", "3", "4", "5", "6", "7", "8", "9"}

\* str.lower() on one character, for the upper-case letters the inputs use.
LowerChar(ch) ==
    CASE ch = "A" -> "a" [] ch = "C" -> "c" [] ch = "E" -> "e"
      [] ch = "G" -> "g" [] ch = "H" -> "h" [] ch = "J" -> "j"
      [] ch = "N" -> "n" [] ch = "P" -> "p" [] ch = "R" -> "r"
      [] ch = "S" -> "s" [] ch = "T" -> "t" [] OTHER -> ch

Lower(s) == [i \in 1..Len(s) |-> LowerChar(s[i])]

StartsWith(s, pre) ==
    /\ Len(pre) <= Len(s)
    /\ SubSeq(s, 1, Len(pre)) = pre

EndsWith(s, suf) ==
    /\ Len(suf) <= Len(s)
    /\ SubSeq(s, Len(s) - Len(suf) + 1, Len(s)) = suf

\* str.isnumeric(): non-empty and every character a digit.
IsNumeric(s) == Len(s) > 0 /\ \A i \in 1..Len(s) : s[i] \in Digits

\* str.rfind(ch): the last index of ch in s, 0 when absent (Python's -1 + 1).
RFind(s, ch) ==
    LET I == {i \in 1..Len(s) : s[i] = ch}
    IN  IF I = {} THEN 0 ELSE CHOOSE i \in I : \A j \in I : j <= i

\* pathlib: trailing separators are dropped, the name is the last component.
RECURSIVE StripSlashes(_)
StripSlashes(s) ==
    IF Len(s) > 0 /\ s[Len(s)] = "/" THEN StripSlashes(SubSeq(s, 1, Len(s) - 1))
    ELSE s

PathName(s) ==
    LET t == StripSlashes(s)
    IN  SubSeq(t, RFind(t, "/") + 1, Len(t))

\* PurePath.suffix: from the last dot of the name, unless that dot is the
\* first or the last character of the name.
PathSuffix(s) ==
    LET n == PathName(s)
        i == RFind(n, ".")
    IN  IF 1 < i /\ i < Len(n) THEN SubSeq(n, i, Len(n)) ELSE << >>

\* PurePath.with_suffix(suffix) on a name.
WithSuffix(n, suffix) ==
    LET old == PathSuffix(n)
    IN  SubSeq(n, 1, Len(n) - Len(old)) \o suffix

\* Path(source).suffix[1:]
Ext(s) == LET x == PathSuffix(s) IN SubSeq(x, 2, Len(x))

(***************************************************************************)
(* utils.dataloaders.IMG_FORMATS / VID_FORMATS (imported at                *)
(* detector.py:20): the known image and video extensions, lower case.      *)
(***************************************************************************)
IMG_FORMATS ==
    { <<"j","p","g">>, <<"p","n","g">>, <<"b","m","p">>, <<"j","p","e","g">> }

VID_FORMATS ==
    { <<"m","p","4">>, <<"a","v","i">>, <<"m","o","v">>, <<"m","k","v">> }

UrlPrefixes ==
    { <<"r","t","s","p",":","/","/">>, <<"r","t","m","p",":","/","/">>,
      <<"h","t","t","p",":","/","/">>, <<"h","t","t","p","s",":","/","/">> }

StreamsSuffix == <<".","s","t","r","e","a","m","s">>
ScreenPrefix  == <<"s","c","r","e","e","n">>
Mp4Suffix     == <<".","m","p","4">>

(***************************************************************************)
(* The source strings offered to detect().                                 *)
(***************************************************************************)
SrcEmpty     == << >>
SrcTxt       == <<"a",".","t","x","t">>
SrcDir       == <<"d","/","i","n">>
SrcUpperJpg  == <<"C",".","J","P","G">>
SrcJpg       == <<"c","a","t",".","j","p","g">>
SrcAvi       == <<"v",".","a","v","i">>
SrcMp4       == <<"v",".","m","p","4">>
SrcGlobAvi   == <<"d","/","*",".","a","v","i">>
SrcGlobJpg   == <<"d","/","*","*","/","*",".","j","p","g">>
SrcGlobMp4   == <<"d","/","*","*","/","*",".","m","p","4">>
SrcCam       == <<"0">>
SrcStreams   == <<"c",".","s","t","r","e","a","m","s">>
SrcRtsp      == <<"R","T","S","P",":","/","/","c">>
SrcHttpJpg   == <<"h","t","t","p",":","/","/","h","/","a",".","j","p","g">>
SrcScreen    == <<"S","c","r","e","e","n">>
SrcScreenPng == <<"s","c","r","e","e","n",".","p","n","g">>
SrcScreenStreams == <<"s","c","r","e","e","n",".","s","t","r","e","a","m","s">>

InvalidSources == {SrcEmpty, SrcTxt, SrcDir, SrcUpperJpg}

FileSources == {SrcJpg, SrcAvi, SrcMp4, SrcGlobAvi, SrcGlobJpg, SrcGlobMp4, SrcHttpJpg}

LiveSources ==
    {SrcCam, SrcStreams, SrcRtsp, SrcScreen, SrcScreenPng, SrcScreenStreams}

Sources == InvalidSources \cup FileSources \cup LiveSources

(***************************************************************************)
(* YOLODetector._analyze_source                                            *)
(***************************************************************************)
IsFile(source) == Ext(source) \in (IMG_FORMATS \cup VID_FORMATS)

IsUrl(source) == \E pre \in UrlPrefixes : StartsWith(Lower(source), pre)

IsWebcam(source) ==
    \/ IsNumeric(source)
    \/ EndsWith(source, StreamsSuffix)
    \/ (IsUrl(source) /\ ~IsFile(source))

IsScreenshot(source) == StartsWith(Lower(source), ScreenPrefix)

\* A bug the classification could have: every source passes as valid.
AnalyzeSourceNoCheck(source) ==
    [ valid      |-> TRUE,
      is_file    |-> IsFile(source),
      is_url     |-> IsUrl(source),
      webcam     |-> IsWebcam(source),
      screenshot |-> IsScreenshot(source) ]

\* A bug the classification could have: a webcam does not count as valid.
AnalyzeSourceNoWebcam(source) ==
    [ valid      |-> IsFile(source) \/ IsUrl(source) \/ IsScreenshot(source),
      is_file    |-> IsFile(source),
      is_url     |-> IsUrl(source),
      webcam     |-> IsWebcam(source),
      screenshot |-> IsScreenshot(source) ]

AnalyzeSource(source) ==
    [ valid      |-> IsFile(source) \/ IsUrl(source) \/ IsWebcam(source)
                        \/ IsScreenshot(source),
      is_file    |-> IsFile(source),
      is_url     |-> IsUrl(source),
      webcam     |-> IsWebcam(source),
      screenshot |-> IsScreenshot(source) ]

NoInfo ==
    [ valid |-> FALSE, is_file |-> FALSE, is_url |-> FALSE,
      webcam |-> FALSE, screenshot |-> FALSE ]

(***************************************************************************)
(* YOLODetector._create_dataloader: which loader reads the source.         *)
(***************************************************************************)
\* A selection that lets the file flag come before the screenshot flag.
CreateDataloaderFileFirst(source_info) ==
    IF source_info.webcam THEN "LoadStreams"
    ELSE IF source_info.is_file THEN "LoadImages"
    ELSE IF source_info.screenshot THEN "LoadScreenshots"
    ELSE "LoadImages"

CreateDataloader(source_info) ==
    IF source_info.webcam THEN "LoadStreams"
    ELSE IF source_info.screenshot THEN "LoadScreenshots"
    ELSE "LoadImages"

(***************************************************************************)
(* The frame sources (utils.dataloaders, imported at detector.py:20).      *)
(* A frame source is its loader, its length and the finite sequence of     *)
(* frame records it yields before it is exhausted.  A frame record has the *)
(* mode the loader reports for it and one file name per image of the       *)
(* batch (one per stream for a stream loader, one otherwise).              *)
(***************************************************************************)
Stems == <<"a", "b">>

IsGlob(source) == \E i \in 1..Len(source) : source[i] = "*"

IsRecursiveGlob(source) ==
    \E i \in 1..(Len(source) - 1) : source[i] = "*" /\ source[i + 1] = "*"

\* The file names a source matches: itself, or for a glob up to nFiles names
\* with the glob's suffix, sorted and distinct within one directory, in any
\* order and possibly repeated when the glob descends into directories.
FileLists(source, nFiles) ==
    IF ~IsGlob(source) THEN { << PathName(source) >> }
    ELSE LET Idx == UNION { [1..n -> 1..Len(Stems)] : n \in 1..nFiles }
             Ok(f) == IsRecursiveGlob(source)
                        \/ \A i, j \in DOMAIN f : i < j => f[i] < f[j]
         IN  { [i \in DOMAIN f |-> << Stems[f[i]] >> \o PathSuffix(source)]
                 : f \in {g \in Idx : Ok(g)} }

RECURSIVE FileRecords(_, _, _)
FileRecords(files, counts, mode) ==
    IF files = << >> THEN << >>
    ELSE [k \in 1..Head(counts) |-> [mode |-> mode, names |-> << Head(files) >>]]
           \o FileRecords(Tail(files), Tail(counts), mode)

\* LoadImages: an image file is one record of mode "image"; a video file is
\* one record of mode "video" per decoded frame (none when nothing decodes).
ImageSources(source, nFiles, nFrames) ==
    LET isImg == Ext(source) \in IMG_FORMATS
    IN  UNION { { [ loader |-> "LoadImages", len |-> 1,
                    frames |-> FileRecords(files, counts,
                                           IF isImg THEN "image" ELSE "video") ]
                  : counts \in [DOMAIN files ->
                                  IF isImg THEN {1} ELSE 0..nFrames] }
                : files \in FileLists(source, nFiles) }

\* LoadStreams: one name per stream, every record is a batch over all streams.
StreamNames(source, n) ==
    IF EndsWith(source, StreamsSuffix)
    THEN [i \in 1..n |-> << CHOOSE d \in Digits : d = ToString(i - 1) >>]
    ELSE << PathName(source) >>

StreamSources(source, nStreams, nFrames) ==
    LET Ns == IF EndsWith(source, StreamsSuffix) THEN 1..nStreams ELSE {1}
    IN  { [ loader |-> "LoadStreams", len |-> n,
            frames |-> [k \in 1..f |->
                          [mode |-> "stream", names |-> StreamNames(source, n)]] ]
          : n \in Ns, f \in 0..nFrames }

\* LoadScreenshots: one screen, records of mode "stream".
ScreenSources(source, nFrames) ==
    { [ loader |-> "LoadScreenshots", len |-> 1,
        frames |-> [k \in 1..f |-> [mode |-> "stream", names |-> << <<"0">> >>]] ]
      : f \in 0..nFrames }

FrameSources(source, source_info, nFiles, nFrames, nStreams) ==
    LET loader == CreateDataloader(source_info)
    IN  IF loader = "LoadStreams" THEN StreamSources(source, nStreams, nFrames)
        ELSE IF loader = "LoadScreenshots" THEN ScreenSources(source, nFrames)
        ELSE ImageSources(source, nFiles, nFrames)

NoDataset == [loader |-> "none", len |-> 0, frames |-> << >>]

(***************************************************************************)
(* The model backend.  config.yolo.weights is handed to DetectMultiBackend *)
(* (detector.py:51-57), which derives the backend flags from it: pt for a  *)
(* '.pt' file, triton for an http/grpc URL that has no model suffix.       *)
(***************************************************************************)
WeightsDefault == <<"y", ".", "p", "t">>

WeightsOnnx == <<"y", ".", "o", "n", "n", "x">>

WeightsTriton == <<"h", "t", "t", "p", ":", "/", "/", "t">>

WeightsSet == {WeightsDefault, WeightsOnnx, WeightsTriton}

ModelSuffixes == { <<".", "p", "t">>, <<".", "o", "n", "n", "x">> }

TritonSchemes == { <<"h", "t", "t", "p", ":", "/", "/">>,
                   <<"g", "r", "p", "c", ":", "/", "/">> }

BackendPt(w) == PathSuffix(w) = <<".", "p", "t">>

BackendTriton(w) ==
    /\ PathSuffix(w) \notin ModelSuffixes
    /\ \E pre \in TritonSchemes : StartsWith(w, pre) /\ Len(w) > Len(pre)

\* The batch size `bs` alone, whatever the backend.
WarmupBatchBs(w, info, ds) == IF info.webcam THEN ds.len ELSE 1

\* Lines 130-131: bs = len(dataset) if webcam else 1, and the warm-up gets
\* (1 if pt or self.model.triton else bs, 3, *imgsz).
WarmupBatch(w, info, ds) ==
    LET bs == IF info.webcam THEN ds.len ELSE 1
    IN  IF BackendPt(w) \/ BackendTriton(w) THEN 1 ELSE bs

(***************************************************************************)
(* The upload utilities (utils_app.py) and the messages of the web layer.  *)
(***************************************************************************)
\* config.py:60-63
ALLOWED_EXTENSIONS ==
    { <<"p","n","g">>, <<"j","p","g">>, <<"j","p","e","g">>, <<"g","i","f">>,
      <<"b","m","p">>, <<"t","i","f","f">>, <<"m","p","4">>, <<"a","v","i">>,
      <<"m","o","v">>, <<"m","k","v">>, <<"f","l","v">>, <<"w","m","v">> }

\* File names as clients send them: none, a text file, an image with an
\* upper-case extension, a video, a type the configuration allows and the
\* detector does not know, a name with a character secure_filename drops,
\* and a name without a dot.
NameEmpty == << >>

NameTxt == <<"a", ".", "t", "x", "t">>

NameUpperJpg == <<"P", ".", "J", "P", "G">>

NameAvi == <<"v", ".", "a", "v", "i">>

NameFlv == <<"x", ".", "f", "l", "v">>

NameUnsafe == <<"#", ".", "j", "p", "g">>

NameNoDot == <<"j", "p", "g">>

UploadNames ==
    {NameEmpty, NameTxt, NameUpperJpg, NameAvi, NameFlv, NameUnsafe, NameNoDot}

HasDot(name) == RFind(name, ".") # 0

\* name.rsplit('.', 1)[1]
RSplitExt(name) == SubSeq(name, RFind(name, ".") + 1, Len(name))

\* validate_file_type (utils_app.py:24-39)
ValidateFileType(filename) ==
    HasDot(filename) /\ Lower(RSplitExt(filename)) \in ALLOWED_EXTENSIONS

Letters ==
    { "a", "b", "c", "d", "e", "f", "g", "h", "i", "j", "k", "l", "m", "n",
      "o", "p", "q", "r", "s", "t", "u", "v", "w", "x", "y", "z",
      "A", "C", "E", "G", "H", "J", "N", "P", "R", "S", "T" }

IsSafeChar(ch) == ch \in Letters \cup Digits \cup {".", "_", "-"}

\* str.strip('._')
RECURSIVE StripDots(_)
StripDots(s) ==
    IF Len(s) > 0 /\ s[1] \in {".", "_"} THEN StripDots(Tail(s))
    ELSE IF Len(s) > 0 /\ s[Len(s)] \in {".", "_"}
         THEN StripDots(SubSeq(s, 1, Len(s) - 1))
         ELSE s

\* werkzeug's secure_filename as called at utils_app.py:84, on names without
\* blanks or separators: the characters outside [A-Za-z0-9_.-] are dropped,
\* then dots and underscores are stripped from both ends.
SecureFilename(name) == StripDots(SelectSeq(name, IsSafeChar))

\* The '<timestamp>_<uuid>' of generate_unique_filename.
Stamp == <<"u">>

\* generate_unique_filename (utils_app.py:41-58): the extension is lowered.
GenerateUniqueFilename(original) ==
    LET extension == IF HasDot(original) THEN Lower(RSplitExt(original))
                     ELSE << >>
    IN  IF extension # << >> THEN Stamp \o <<".">> \o extension ELSE Stamp

\* config.uploads_path / 'images'
UploadsDir == <<"u", "p", "/">>

\* The path save_uploaded_file returns (utils_app.py:80-86).
UploadPath(filename) ==
    UploadsDir \o GenerateUniqueFilename(SecureFilename(filename))

\* The messages, as sequences of the phrases the handlers look for:
\* "qing xuan ze" (please choose) + "wen jian" (a file); "bu zhi chi"
\* (unsupported) + "de wen jian lei xing" (file type); "wen jian guo da"
\* (file too large); and the messages of _process_detection.
MsgSelect == <<"qing-xuan-ze", "wen-jian">>

MsgUnsupported == <<"bu-zhi-chi", "de-wen-jian-lei-xing">>

MsgTooLarge == <<"wen-jian-guo-da", "zui-da-yun-xu">>

MsgSaveFailed == <<"wen-jian", "bao-cun-shi-bai">>

MsgDetectFailed == <<"mu-biao-jian-ce", "shi-bai">>

MsgNoResult == <<"wei-sheng-cheng", "jian-ce-jie-guo">>

\* validate_image_file (utils_app.py:176-204): (is_valid, message).
ValidateImageFile(filename, over) ==
    IF filename = << >> THEN [ok |-> FALSE, msg |-> MsgSelect]
    ELSE IF ~ValidateFileType(filename)
         THEN [ok |-> FALSE, msg |-> MsgUnsupported]
         ELSE IF over THEN [ok |-> FALSE, msg |-> MsgTooLarge]
              ELSE [ok |-> TRUE, msg |-> << >>]

\* `phrase in error_msg`
Contains(msg, phrase) == \E i \in DOMAIN msg : msg[i] = phrase

\* app.py:135 and 185: 400 if "bu zhi chi" in error_msg or "qing xuan ze" in
\* error_msg else 500.
StatusFor(msg) ==
    IF Contains(msg, "bu-zhi-chi") \/ Contains(msg, "qing-xuan-ze")
    THEN 400 ELSE 500

\* The upload is left where it is.
UnlinkSkipped(u) == u

\* file_path.unlink(missing_ok=True)
Unlink(u) == IF u = "saved" THEN "removed" ELSE u

(***************************************************************************)
(* The state.                                                              *)
(*   model       detector.model of the one shared detector: "none"/"loaded" *)
(*   preloaded   the import-time load of app.py has been attempted         *)
(*   fs          the results root: run directory number -> names of the    *)
(*               files in it (1 is 'exp', n > 1 is 'exp<n>')               *)
(* and, for every call of detect():                                        *)
(*   pc          where the call is                                         *)
(*   source, classified, source_info, save_dir (0: none), dataset, seen    *)
(*   vid_path, vid_writer   the per-stream lists of _process_detections    *)
(*               (<<>> and 0 stand for None)                               *)
(*   writers     every cv2.VideoWriter the call constructed:               *)
(*               [name, idx, open, frames]                                 *)
(*   result      what detect() returned: a run directory, 0 for None       *)
(* History kept for the properties:                                        *)
(*   persisted   the writes of _save_results, in order                     *)
(*   cause       why the call returned None                                *)
(*   loads       load_model attempts made by the call                      *)
(*   sawModel    detector.model as the call read it at line 77             *)
(*   returnedDirs    the run directories of the calls that have returned     *)
(*   dirsBefore      returnedDirs as it was when the call began              *)
(*   warm        the batch size the call passed to model.warmup (0: none)  *)
(* The configuration and the web layer:                                    *)
(*   weights     config.yolo.weights, fixed before the first load          *)
(*   req         the POST a handler thread serves: [route, part, filename, *)
(*               over]; route "none" is a direct call of detect()          *)
(*   upload      the file save_uploaded_file returned for the request:     *)
(*               "none", "saved" or "removed"                              *)
(*   answer      the response: [status, stage]; status 0 is not answered,  *)
(*               stage is where the request ended                          *)
(***************************************************************************)
VARIABLES model, preloaded, fs, pc, source, classified, source_info, save_dir,
          dataset, seen, vid_path, vid_writer, writers, persisted, result,
          cause, loads, sawModel, dirsBefore, returnedDirs, warm, weights,
          req, upload, answer

vars == << model, preloaded, fs, pc, source, classified, source_info, save_dir,
           dataset, seen, vid_path, vid_writer, writers, persisted, result,
           cause, loads, sawModel, dirsBefore, returnedDirs, warm, weights,
           req, upload, answer >>

callVars == << source, classified, source_info, save_dir, dataset, seen,
               vid_path, vid_writer, writers, persisted, result, cause, loads,
               sawModel, dirsBefore, warm >>

webVars == << weights, req, upload, answer >>

\* A direct call of detect() serves no request.
NoReq == [route |-> "none", part |-> FALSE, filename |-> << >>, over |-> FALSE]

NoAnswer == [status |-> 0, stage |-> "none"]

InitFor(W) ==
    /\ weights \in W
    /\ warm = [c \in Calls |-> 0]
    /\ req = [c \in Calls |-> NoReq]
    /\ upload = [c \in Calls |-> "none"]
    /\ answer = [c \in Calls |-> NoAnswer]
    /\ model = "none"
    /\ preloaded = FALSE
    /\ fs = << >>
    /\ pc = [c \in Calls |-> "idle"]
    /\ source = [c \in Calls |-> << >>]
    /\ classified = [c \in Calls |-> FALSE]
    /\ source_info = [c \in Calls |-> NoInfo]
    /\ save_dir = [c \in Calls |-> 0]
    /\ dataset = [c \in Calls |-> NoDataset]
    /\ seen = [c \in Calls |-> 0]
    /\ vid_path = [c \in Calls |-> << >>]
    /\ vid_writer = [c \in Calls |-> << >>]
    /\ writers = [c \in Calls |-> << >>]
    /\ persisted = [c \in Calls |-> << >>]
    /\ result = [c \in Calls |-> 0]
    /\ cause = [c \in Calls |-> "none"]
    /\ loads = [c \in Calls |-> 0]
    /\ sawModel = [c \in Calls |-> "none"]
    /\ dirsBefore = [c \in Calls |-> {}]
    /\ returnedDirs = {}

\* The application as configured (config.py:15).
Init == InitFor({WeightsDefault})

\* The detector under every kind of weights.
InitLoop == InitFor(WeightsSet)

(***************************************************************************)
(* The results root.                                                       *)
(***************************************************************************)
Exists(f, d) == d \in DOMAIN f

\* Path.mkdir(parents=True, exist_ok=True): an existing directory is kept.
Mkdir(f, d) ==
    [x \in DOMAIN f \cup {d} |-> IF x \in DOMAIN f THEN f[x] ELSE {}]

\* shutil.rmtree(dir, ignore_errors=True)
Rmtree(f, d) == [x \in DOMAIN f \ {d} |-> f[x]]

\* A file written in a run directory; nothing is written when the directory
\* is gone (cv2 reports that by its return value, which the code drops).
WriteFile(f, d, name) ==
    IF Exists(f, d) THEN [f EXCEPT ![d] = @ \cup {name}] ELSE f

\* utils.general.increment_path(root / 'exp', exist_ok=False): 'exp' when it
\* does not exist, else the first of exp2, exp3, ... that does not exist.
IncrementPath(f) ==
    IF ~Exists(f, 1) THEN 1
    ELSE CHOOSE n \in 2..(Cardinality(DOMAIN f) + 2) :
            /\ ~Exists(f, n)
            /\ \A m \in 2..(n - 1) : Exists(f, m)

(***************************************************************************)
(* YOLODetector._save_results and _process_single_detection.  The sink     *)
(* state of a call is st = [vid_path, vid_writer, writers, persisted, fs]. *)
(***************************************************************************)
\* Line 229 stores the path as computed, before line 240 changes its suffix.
StoredPathMp4(save_path) == WithSuffix(save_path, Mp4Suffix)

StoredPath(save_path) == save_path

\* Lines 230-231: the writer of this index, if any, is released.
ReleaseSkipped(ws, w) == ws

Release(ws, w) == IF w = 0 THEN ws ELSE [ws EXCEPT ![w].open = FALSE]

\* Line 243 is outside the `if` of line 228: it runs whether or not the path
\* changed.
WritesOnlyUnchanged(changed) == ~changed

Writes(changed) == TRUE

SaveResults(st, d, mode, save_path, i, fid) ==
    IF mode = "image"
    THEN [st EXCEPT !.fs = WriteFile(@, d, save_path),
                    !.persisted = Append(@, [frame |-> fid, kind |-> "image",
                                             file |-> save_path, writer |-> 0,
                                             open |-> FALSE])]
    ELSE LET changed == st.vid_path[i] # save_path
             mp4 == WithSuffix(save_path, Mp4Suffix)
             ws1 == IF changed
                    THEN Append(Release(st.writers, st.vid_writer[i]),
                                [name |-> mp4, idx |-> i, open |-> TRUE,
                                 frames |-> << >>])
                    ELSE st.writers
             w == IF changed THEN Len(ws1) ELSE st.vid_writer[i]
             vp == IF changed THEN [st.vid_path EXCEPT ![i] = StoredPath(save_path)]
                   ELSE st.vid_path
             wr == Writes(changed)
             \* VideoWriter.write on a released writer writes nothing.
             ws2 == IF wr /\ ws1[w].open
                    THEN [ws1 EXCEPT ![w].frames = Append(@, fid)]
                    ELSE ws1
         IN  [ vid_path   |-> vp,
               vid_writer |-> [st.vid_writer EXCEPT ![i] = w],
               writers    |-> ws2,
               persisted  |-> IF wr
                              THEN Append(st.persisted,
                                          [frame |-> fid, kind |-> "video",
                                           file |-> ws1[w].name, writer |-> w,
                                           open |-> ws1[w].open])
                              ELSE st.persisted,
               fs         |-> IF changed THEN WriteFile(st.fs, d, mp4) ELSE st.fs ]

\* for i, det in enumerate(pred): one detection list per image of the batch.
RECURSIVE ProcessSingleDetection(_, _, _, _, _)
ProcessSingleDetection(st, d, rec, k, i) ==
    IF i > Len(rec.names) THEN st
    ELSE LET p == IF rec.mode = "stream" THEN rec.names[i] ELSE rec.names[1]
         IN  ProcessSingleDetection(
                 SaveResults(st, d, rec.mode, PathName(p), i, << k, i >>),
                 d, rec, k, i + 1)

(***************************************************************************)
(* The actions.                                                            *)
(***************************************************************************)
\* app.py:32, at import and so before any request: the model is preloaded;
\* a failure is logged and the application goes on without a model.
Preload ==
    /\ ~preloaded
    /\ \A c \in Calls : pc[c] = "idle" /\ req[c] = NoReq
    /\ preloaded' = TRUE
    /\ \E ok \in BOOLEAN : model' = IF ok THEN "loaded" ELSE "none"
    /\ UNCHANGED << fs, pc, returnedDirs >>
    /\ UNCHANGED callVars
    /\ UNCHANGED webVars

\* Line 77: the load is attempted when detector.model is None.
NeedsLoadAlways(m) == TRUE

NeedsLoad(m) == m = "none"

\* detect() is entered with a source (lines 76-77).
Enter(c, S) ==
    /\ pc[c] = "idle"
    /\ \E s \in S : source' = [source EXCEPT ![c] = s]
    /\ sawModel' = [sawModel EXCEPT ![c] = model]
    /\ dirsBefore' = [dirsBefore EXCEPT ![c] = returnedDirs]
    /\ pc' = [pc EXCEPT ![c] = IF NeedsLoad(model) THEN "load" ELSE "classify"]
    /\ UNCHANGED << model, preloaded, fs, classified, source_info, save_dir,
                    dataset, seen, vid_path, vid_writer, writers, persisted,
                    result, cause, loads, returnedDirs >>
    /\ UNCHANGED << warm, webVars >>

\* load_model (lines 47-62) as called at line 78: True and the model set, or
\* False, and then detect returns None (line 79).
LoadModel(c) ==
    /\ pc[c] = "load"
    /\ loads' = [loads EXCEPT ![c] = @ + 1]
    /\ \E ok \in BOOLEAN :
         IF ok
         THEN /\ model' = "loaded"
              /\ pc' = [pc EXCEPT ![c] = "classify"]
              /\ UNCHANGED << result, cause >>
         ELSE /\ model' = model
              /\ pc' = [pc EXCEPT ![c] = "done"]
              /\ result' = [result EXCEPT ![c] = 0]
              /\ cause' = [cause EXCEPT ![c] = "load"]
    /\ UNCHANGED << preloaded, fs, source, classified, source_info, save_dir,
                    dataset, seen, vid_path, vid_writer, writers, persisted,
                    sawModel, dirsBefore, returnedDirs >>
    /\ UNCHANGED << warm, webVars >>

\* Lines 85-91: the source is classified; an invalid one returns None, a valid
\* one is given the run directory name increment_path picks.
Classify(c) ==
    /\ pc[c] = "classify"
    /\ classified' = [classified EXCEPT ![c] = TRUE]
    /\ source_info' = [source_info EXCEPT ![c] = AnalyzeSource(source[c])]
    /\ IF AnalyzeSource(source[c]).valid
       THEN /\ save_dir' = [save_dir EXCEPT ![c] = IncrementPath(fs)]
            /\ pc' = [pc EXCEPT ![c] = "mkdir"]
            /\ UNCHANGED << result, cause >>
       ELSE /\ pc' = [pc EXCEPT ![c] = "done"]
            /\ result' = [result EXCEPT ![c] = 0]
            /\ cause' = [cause EXCEPT ![c] = "invalid"]
            /\ UNCHANGED save_dir
    /\ UNCHANGED << model, preloaded, fs, source, dataset, seen, vid_path,
                    vid_writer, writers, persisted, loads, sawModel,
                    dirsBefore, returnedDirs >>
    /\ UNCHANGED << warm, webVars >>

\* Line 92: save_dir.mkdir(parents=True, exist_ok=True).
MakeDir(c) ==
    /\ pc[c] = "mkdir"
    /\ fs' = Mkdir(fs, save_dir[c])
    /\ pc' = [pc EXCEPT ![c] = "run"]
    /\ UNCHANGED << model, preloaded, returnedDirs >>
    /\ UNCHANGED callVars
    /\ UNCHANGED webVars

\* _run_detection up to the loop (lines 116-131, 150-151): the loader is
\* built and the per-stream lists start as [None] * len(dataset).
BuildDataloader(c, nFiles, nFrames, nStreams) ==
    /\ pc[c] = "run"
    /\ \E ds \in FrameSources(source[c], source_info[c], nFiles, nFrames, nStreams) :
         /\ dataset' = [dataset EXCEPT ![c] = ds]
         /\ vid_path' = [vid_path EXCEPT ![c] = [i \in 1..ds.len |-> << >>]]
         /\ vid_writer' = [vid_writer EXCEPT ![c] = [i \in 1..ds.len |-> 0]]
    /\ seen' = [seen EXCEPT ![c] = 0]
    /\ pc' = [pc EXCEPT ![c] = "loop"]
    /\ UNCHANGED << model, preloaded, fs, source, classified, source_info,
                    save_dir, writers, persisted, result, cause, loads,
                    sawModel, dirsBefore, returnedDirs >>
    /\ warm' = [warm EXCEPT ![c] = WarmupBatch(weights, source_info[c], dataset'[c])]
    /\ UNCHANGED webVars

\* When a call's frame ends the writers it still references are finalised by
\* the interpreter or not: the code itself never releases them there.
Finalised(ws, gc) ==
    IF gc THEN [w \in DOMAIN ws |-> [ws[w] EXCEPT !.open = FALSE]] ELSE ws

\* An exception before the loop (check_file, the loader's constructor, the
\* warm-up), caught at line 97: None is returned, the directory stays.
RunFail(c) ==
    /\ pc[c] = "run"
    /\ pc' = [pc EXCEPT ![c] = "done"]
    /\ result' = [result EXCEPT ![c] = 0]
    /\ cause' = [cause EXCEPT ![c] = "setup"]
    /\ returnedDirs' = returnedDirs \cup {save_dir[c]}
    /\ UNCHANGED << model, preloaded, fs, source, classified, source_info,
                    save_dir, dataset, seen, vid_path, vid_writer, writers,
                    persisted, loads, sawModel, dirsBefore >>
    /\ UNCHANGED << warm, webVars >>

\* The loop of _process_detections takes the next frame record (line 153),
\* preprocesses it and enters the forward pass of the shared model (line 165,
\* `pred = self.model(im, ...)`). Nothing is acquired before the call.
Infer(c) ==
    /\ pc[c] = "loop"
    /\ seen[c] < Len(dataset[c].frames)
    /\ pc' = [pc EXCEPT ![c] = "infer"]
    /\ UNCHANGED << model, preloaded, fs, source, classified, source_info,
                    save_dir, dataset, seen, vid_path, vid_writer, writers,
                    persisted, result, cause, loads, sawModel, dirsBefore,
                    returnedDirs >>
    /\ UNCHANGED << warm, webVars >>

\* The forward pass returns and the rest of the pass runs (lines 168-179):
\* the frame record is annotated and saved, image by image of the batch.
FrameStep(c) ==
    /\ pc[c] = "infer"
    /\ seen[c] < Len(dataset[c].frames)
    /\ pc' = [pc EXCEPT ![c] = "loop"]
    /\ LET k == seen[c] + 1
           st == ProcessSingleDetection(
                     [ vid_path |-> vid_path[c], vid_writer |-> vid_writer[c],
                       writers |-> writers[c], persisted |-> persisted[c],
                       fs |-> fs ],
                     save_dir[c], dataset[c].frames[k], k, 1)
       IN  /\ vid_path' = [vid_path EXCEPT ![c] = st.vid_path]
           /\ vid_writer' = [vid_writer EXCEPT ![c] = st.vid_writer]
           /\ writers' = [writers EXCEPT ![c] = st.writers]
           /\ persisted' = [persisted EXCEPT ![c] = st.persisted]
           /\ fs' = st.fs
           /\ seen' = [seen EXCEPT ![c] = k]
    /\ UNCHANGED << model, preloaded, source, classified, source_info,
                    save_dir, dataset, result, cause, loads, sawModel,
                    dirsBefore, returnedDirs >>
    /\ UNCHANGED << warm, webVars >>

\* A frame that cannot be decoded (line 153) or written (lines 223-243)
\* raises in the loop; line 97 catches it and detect returns None.
FrameFail(c) ==
    /\ pc[c] \in {"loop", "infer"}
    /\ seen[c] < Len(dataset[c].frames)
    /\ \E gc \in BOOLEAN : writers' = [writers EXCEPT ![c] = Finalised(@, gc)]
    /\ pc' = [pc EXCEPT ![c] = "done"]
    /\ result' = [result EXCEPT ![c] = 0]
    /\ cause' = [cause EXCEPT ![c] = "frame"]
    /\ returnedDirs' = returnedDirs \cup {save_dir[c]}
    /\ UNCHANGED << model, preloaded, fs, source, classified, source_info,
                    save_dir, dataset, seen, vid_path, vid_writer, persisted,
                    loads, sawModel, dirsBefore >>
    /\ UNCHANGED << warm, webVars >>

\* _print_results (line 247) divides each timer by `seen`.
StatsRaise(n) == n = 0

\* The frame source is exhausted (lines 181-182, 136, 95): the statistics are
\* printed and the run directory is returned; an exception in the statistics
\* is caught at line 97 and None is returned.
LoopEnd(c) ==
    /\ pc[c] = "loop"
    /\ seen[c] = Len(dataset[c].frames)
    /\ \E gc \in BOOLEAN : writers' = [writers EXCEPT ![c] = Finalised(@, gc)]
    /\ pc' = [pc EXCEPT ![c] = "done"]
    /\ IF StatsRaise(seen[c])
       THEN /\ result' = [result EXCEPT ![c] = 0]
            /\ cause' = [cause EXCEPT ![c] = "stats"]
       ELSE /\ result' = [result EXCEPT ![c] = save_dir[c]]
            /\ UNCHANGED cause
    /\ returnedDirs' = returnedDirs \cup {save_dir[c]}
    /\ UNCHANGED << model, preloaded, fs, source, classified, source_info,
                    save_dir, dataset, seen, vid_path, vid_writer, persisted,
                    loads, sawModel, dirsBefore >>
    /\ UNCHANGED << warm, webVars >>

\* The caller after detect() returned, where the request around the call is
\* left out (app.py:66-78, 150-152, 207-214, 229-232): an empty result
\* directory is removed, and so is the directory of a caller that fails
\* downstream (no result URL, the original not saved).
CallerHandle(c) ==
    /\ pc[c] = "done"
    /\ req[c].route = "none"
    /\ pc' = [pc EXCEPT ![c] = "end"]
    /\ IF result[c] = 0
       THEN fs' = fs
       ELSE LET d == result[c]
                files == IF Exists(fs, d) THEN fs[d] ELSE {}
            IN  \E fail \in BOOLEAN :
                    fs' = IF files = {} \/ fail THEN Rmtree(fs, d) ELSE fs
    \* The request is over: what the call held is gone.
    /\ source' = [source EXCEPT ![c] = << >>]
    /\ classified' = [classified EXCEPT ![c] = FALSE]
    /\ source_info' = [source_info EXCEPT ![c] = NoInfo]
    /\ dataset' = [dataset EXCEPT ![c] = NoDataset]
    /\ seen' = [seen EXCEPT ![c] = 0]
    /\ vid_path' = [vid_path EXCEPT ![c] = << >>]
    /\ vid_writer' = [vid_writer EXCEPT ![c] = << >>]
    /\ writers' = [writers EXCEPT ![c] = << >>]
    /\ persisted' = [persisted EXCEPT ![c] = << >>]
    /\ loads' = [loads EXCEPT ![c] = 0]
    /\ sawModel' = [sawModel EXCEPT ![c] = "none"]
    /\ dirsBefore' = [dirsBefore EXCEPT ![c] = {}]
    /\ save_dir' = [save_dir EXCEPT ![c] = 0]
    /\ result' = [result EXCEPT ![c] = 0]
    /\ cause' = [cause EXCEPT ![c] = "none"]
    /\ UNCHANGED << model, preloaded, returnedDirs >>
    /\ warm' = [warm EXCEPT ![c] = 0]
    /\ UNCHANGED webVars

\* A POST to /api/detect or /detect up to the call of detect(): the file
\* part is looked for (app.py:126-127, 176-177), then _process_detection
\* validates the file (lines 52-54) and saves it under uploads (57-59).  A
\* request that is turned down is answered at once (lines 134-135, 184-185).
Receive(c) ==
    /\ pc[c] = "idle"
    /\ req[c] = NoReq
    /\ \E route \in {"api", "page"}, part \in BOOLEAN, name \in UploadNames,
          over \in BOOLEAN, saved \in BOOLEAN :
         LET r == [ route |-> route, part |-> part,
                    filename |-> IF part THEN name ELSE << >>,
                    over |-> part /\ over ]
             v == ValidateImageFile(r.filename, r.over)
         IN  /\ req' = [req EXCEPT ![c] = r]
             /\ IF ~part
                THEN /\ answer' = [answer EXCEPT ![c] =
                                     [status |-> 400, stage |-> "validation"]]
                     /\ pc' = [pc EXCEPT ![c] = "end"]
                     /\ UNCHANGED upload
                ELSE IF ~v.ok
                THEN /\ answer' = [answer EXCEPT ![c] =
                                     [ status |-> StatusFor(v.msg),
                                       stage |-> "validation" ]]
                     /\ pc' = [pc EXCEPT ![c] = "end"]
                     /\ UNCHANGED upload
                ELSE IF ~saved
                THEN /\ answer' = [answer EXCEPT ![c] =
                                     [ status |-> StatusFor(MsgSaveFailed),
                                       stage |-> "save" ]]
                     /\ pc' = [pc EXCEPT ![c] = "end"]
                     /\ UNCHANGED upload
                ELSE /\ upload' = [upload EXCEPT ![c] = "saved"]
                     /\ UNCHANGED << pc, answer >>
    /\ UNCHANGED << model, preloaded, fs, returnedDirs, weights >>
    /\ UNCHANGED callVars

\* app.py:64: detector.detect(file_path) on the saved upload.
EnterWeb(c) ==
    /\ upload[c] = "saved"
    /\ Enter(c, {UploadPath(req[c].filename)})

\* The rest of the request once detect() has returned: _process_detection
\* (app.py:66-78) and then the handler (lines 137-162 for /api/detect,
\* 187-236 for /detect).  That the original cannot be copied, or that no
\* result file gives a URL, is the environment's choice.
Respond(c) ==
    /\ pc[c] = "done"
    /\ req[c].route # "none"
    /\ pc' = [pc EXCEPT ![c] = "end"]
    /\ upload' = [upload EXCEPT ![c] = Unlink(@)]
    /\ LET d == result[c]
           files == IF d # 0 /\ Exists(fs, d) THEN fs[d] ELSE {}
       IN  IF d = 0
           THEN /\ fs' = fs
                /\ answer' = [answer EXCEPT ![c] =
                                [ status |-> StatusFor(MsgDetectFailed),
                                  stage |-> "detect" ]]
           ELSE IF files = {}
           THEN /\ fs' = Rmtree(fs, d)
                /\ answer' = [answer EXCEPT ![c] =
                                [ status |-> StatusFor(MsgNoResult),
                                  stage |-> "empty" ]]
           ELSE \E copied \in BOOLEAN, url \in BOOLEAN :
                  IF req[c].route = "page" /\ ~copied
                  THEN /\ fs' = Rmtree(fs, d)
                       /\ answer' = [answer EXCEPT ![c] =
                                       [status |-> 500, stage |-> "original"]]
                  ELSE IF ~url
                  THEN /\ fs' = Rmtree(fs, d)
                       /\ answer' = [answer EXCEPT ![c] =
                                       [status |-> 500, stage |-> "nourl"]]
                  ELSE /\ fs' = fs
                       /\ answer' = [answer EXCEPT ![c] =
                                       [status |-> 200, stage |-> "ok"]]
    /\ UNCHANGED << model, preloaded, returnedDirs, weights, req >>
    /\ UNCHANGED callVars

Step(c, S, nFiles, nFrames, nStreams) ==
    \/ Enter(c, S)
    \/ LoadModel(c)
    \/ Classify(c)
    \/ MakeDir(c)
    \/ BuildDataloader(c, nFiles, nFrames, nStreams)
    \/ RunFail(c)
    \/ Infer(c)
    \/ FrameStep(c)
    \/ FrameFail(c)
    \/ LoopEnd(c)
    \/ CallerHandle(c)

\* The threaded server (app.py:297-302): the calls interleave freely.  Here
\* the sources are two invalid ones and an image file, whose frame source is
\* one record.
ServedSources == {SrcEmpty, SrcTxt, SrcJpg}

Next == Preload \/ \E c \in Calls : Step(c, ServedSources, 1, 1, 1)

Spec == Init /\ [][Next]_vars

\* One call on its own, over every source and every frame source within the
\* bounds.
NextLoop == Preload \/ Step(1, Sources, MaxFiles, MaxFrames, MaxStreams)

SpecLoop == InitLoop /\ [][NextLoop]_vars

\* One request through a handler of the web layer, from the POST to the
\* response, over every upload and every route.
NextWeb ==
    \/ Preload
    \/ Receive(1)
    \/ EnterWeb(1)
    \/ LoadModel(1)
    \/ Classify(1)
    \/ MakeDir(1)
    \/ BuildDataloader(1, 1, MaxFrames, 1)
    \/ RunFail(1)
    \/ Infer(1)
    \/ FrameStep(1)
    \/ FrameFail(1)
    \/ LoopEnd(1)
    \/ Respond(1)

SpecWeb == Init /\ [][NextWeb]_vars

(***************************************************************************)
(* Properties.                                                             *)
(***************************************************************************)
InFlight(c) == pc[c] \in {"run", "loop", "infer"}

\* The source matches no modality: no known extension, no URL prefix, not
\* numeric, no '.streams' suffix, no 'screen' prefix.
NoModality(s) ==
    /\ Ext(s) \notin (IMG_FORMATS \cup VID_FORMATS)
    /\ \A pre \in UrlPrefixes : ~StartsWith(Lower(s), pre)
    /\ ~IsNumeric(s)
    /\ ~EndsWith(s, StreamsSuffix)
    /\ ~StartsWith(Lower(s), ScreenPrefix)

\* C1: a call whose source matches no modality returns None, has no run
\* directory and has written nothing, and the results root is as empty as
\* before the call.
C1_InvalidSourceNoSideEffects ==
    \A c \in Calls :
        (pc[c] = "done" /\ NoModality(source[c])) =>
            /\ result[c] = 0
            /\ save_dir[c] = 0
            /\ persisted[c] = << >>
            /\ DOMAIN fs = {}

C1_Witness ==
    \E c \in Calls :
        /\ pc[c] = "done"
        /\ source[c] = SrcTxt
        /\ classified[c]
        /\ cause[c] = "invalid"

\* C2: no two calls that are past line 92 and have not returned hold the
\* same run directory.
C2_DistinctRunDirs ==
    \A c1, c2 \in Calls :
        (c1 # c2 /\ InFlight(c1) /\ InFlight(c2)) => save_dir[c1] # save_dir[c2]

\* C3: a call is given a run directory whose number is greater than the
\* number given to every call that had returned before it began.
C3_MonotoneSuffix ==
    \A c \in Calls : \A d \in dirsBefore[c] :
        save_dir[c] # 0 => save_dir[c] > d

OpenWriters(c, i) ==
    {w \in DOMAIN writers[c] : writers[c][w].open /\ writers[c][w].idx = i}

\* C4: of the writers a call constructed for one stream index at most one is
\* open, and it is the one vid_writer holds for that index; every earlier
\* writer of the index has been released.
C4_OneOpenEncoderPerIndex ==
    \A c \in Calls : \A i \in DOMAIN vid_writer[c] :
        /\ Cardinality(OpenWriters(c, i)) <= 1
        /\ OpenWriters(c, i) \subseteq {vid_writer[c][i]}

C4_Witness ==
    \E c \in Calls :
        /\ pc[c] = "loop"
        /\ Len(writers[c]) = 2
        /\ writers[c][1].idx = writers[c][2].idx
        /\ writers[c][1].name # writers[c][2].name
        /\ ~writers[c][1].open
        /\ writers[c][2].open

Events(c, fid) == {e \in DOMAIN persisted[c] : persisted[c][e].frame = fid}

\* The images of the frame records the loop has processed: (record, image).
Processed(c) ==
    UNION { { << k, i >> : i \in 1..Len(dataset[c].frames[k].names) }
              : k \in 1..seen[c] }

Occurrences(q, x) == Cardinality({j \in DOMAIN q : q[j] = x})

\* C6: every image of every frame record the loop has processed was saved by
\* exactly one write, an image file or one append to a writer that was open,
\* and is in that writer's frames once and in no other writer's; nothing else
\* was written.
C6_PersistedExactlyOnce ==
    \A c \in Calls :
        pc[c] \in {"loop", "infer", "done"} =>
            /\ \A fid \in Processed(c) : Cardinality(Events(c, fid)) = 1
            /\ Len(persisted[c]) = Cardinality(Processed(c))
            /\ \A e \in DOMAIN persisted[c] :
                 LET ev == persisted[c][e]
                 IN  /\ ev.frame \in Processed(c)
                     /\ ev.kind = "image" =>
                          \A w \in DOMAIN writers[c] :
                              Occurrences(writers[c][w].frames, ev.frame) = 0
                     /\ ev.kind = "video" =>
                          /\ ev.open
                          /\ \A w \in DOMAIN writers[c] :
                               Occurrences(writers[c][w].frames, ev.frame)
                                 = IF w = ev.writer THEN 1 ELSE 0

\* The first frame of a second video of a batch has been saved.
C6_Witness ==
    \E c \in Calls :
        /\ pc[c] = "loop"
        /\ Len(writers[c]) = 2
        /\ Len(writers[c][1].frames) = 1
        /\ Len(writers[c][2].frames) = 1
        /\ Len(persisted[c]) = 2

SingleVideo(s) == ~IsGlob(s) /\ Ext(s) \in VID_FORMATS /\ ~IsWebcam(s) /\ ~IsScreenshot(s)

\* C7: for a single video source, once a frame has been saved the call has
\* constructed exactly one writer, on a '.mp4' name, which holds every frame
\* saved so far in order, while vid_path keeps the name with its own suffix.
C7_OneEncoderForVideo ==
    \A c \in Calls :
        (pc[c] \in {"loop", "infer", "done"} /\ SingleVideo(source[c]) /\ seen[c] >= 1) =>
            /\ Len(writers[c]) = 1
            /\ PathSuffix(writers[c][1].name) = Mp4Suffix
            /\ writers[c][1].name = WithSuffix(PathName(source[c]), Mp4Suffix)
            /\ writers[c][1].frames = [k \in 1..seen[c] |-> << k, 1 >>]
            /\ vid_writer[c] = << 1 >>
            /\ vid_path[c] = << PathName(source[c]) >>
            /\ Exists(fs, save_dir[c]) => fs[save_dir[c]] = {writers[c][1].name}

C7_Witness ==
    \E c \in Calls :
        /\ pc[c] = "done"
        /\ source[c] = SrcAvi
        /\ seen[c] = MaxFrames
        /\ MaxFrames >= 2
        /\ result[c] = save_dir[c]
        /\ vid_path[c][1] # writers[c][1].name

\* C8: a call on a valid source whose frame source yields no record returns
\* the run directory, which exists and is empty.
C8_EmptySourceSucceeds ==
    \A c \in Calls :
        (pc[c] = "done" /\ dataset[c].loader # "none"
           /\ dataset[c].frames = << >> /\ cause[c] # "setup") =>
            /\ result[c] # 0
            /\ result[c] = save_dir[c]
            /\ Exists(fs, result[c])
            /\ fs[result[c]] = {}

\* C9: the result of a call whose model load failed differs from the result
\* of a call that failed on an invalid source or in the frame loop.
C9_LoadFailureDistinct ==
    \A c1, c2 \in Calls :
        (pc[c1] = "done" /\ pc[c2] = "done" /\ cause[c1] = "load"
           /\ cause[c2] \in {"invalid", "frame"}) =>
            result[c1] # result[c2]

\* C10: a call attempts the load at most once and only if it read
\* detector.model as None at line 77; a call whose attempt failed has
\* returned None without classifying and without a run directory; and while
\* a call that read the model as loaded runs, the model stays loaded and the
\* call makes no attempt.
C10_LazyLoadOnce ==
    \A c \in Calls :
        /\ loads[c] <= 1
        /\ (loads[c] = 1 \/ pc[c] = "load") => sawModel[c] = "none"
        /\ (pc[c] = "done" /\ cause[c] = "load") =>
              /\ loads[c] = 1
              /\ result[c] = 0
              /\ ~classified[c]
              /\ save_dir[c] = 0
        /\ (pc[c] \notin {"idle", "end"} /\ sawModel[c] = "loaded") =>
              /\ model = "loaded"
              /\ loads[c] = 0

\* One call's load failed and it returned None; another call, which also
\* read the model as None, loaded it and returned its run directory.
C10_Witness ==
    \E c1, c2 \in Calls :
        /\ pc[c1] = "done" /\ cause[c1] = "load" /\ loads[c1] = 1
        /\ pc[c2] = "done" /\ loads[c2] = 1 /\ result[c2] # 0
        /\ model = "loaded"

\* The calls that are inside the forward pass of the shared model.
Inferring == {c \in Calls : pc[c] = "infer"}

\* C11: at no time are two calls inside the forward pass of the shared
\* detector's model.
C11_InferenceExclusive == Cardinality(Inferring) <= 1

\* The request of call c has been answered with a failure.
Failed(c) == answer[c].status \notin {0, 200}

\* C12: once a request has been answered with a failure, the run directory
\* that was allocated while it was served is not on disk.
C12_NoRunDirAfterFailure ==
    \A c \in Calls :
        (Failed(c) /\ save_dir[c] # 0) => ~Exists(fs, save_dir[c])

\* The call has built its frame source and warmed the model up.
WarmedUp(c) == pc[c] \in {"loop", "infer", "done"} /\ dataset[c].loader # "none"

\* C13 as stated: the warm-up batch size is the number of streams for a
\* webcam/stream source and 1 for every other source, whatever the backend.
C13_WarmupBatchIsStreamCount ==
    \A c \in Calls :
        WarmedUp(c) =>
            warm[c] = IF IsWebcam(source[c]) THEN dataset[c].len ELSE 1

\* C13: the warm-up batch size is 1 when the backend is PyTorch or Triton;
\* for any other backend it is the number of streams for a webcam/stream
\* source and 1 for every other source.
C13_WarmupBatchByBackend ==
    \A c \in Calls :
        WarmedUp(c) =>
            /\ (BackendPt(weights) \/ BackendTriton(weights)) => warm[c] = 1
            /\ ~(BackendPt(weights) \/ BackendTriton(weights)) =>
                  /\ IsWebcam(source[c]) => warm[c] = dataset[c].len
                  /\ ~IsWebcam(source[c]) => warm[c] = 1

\* An ONNX model was warmed up for a source of two streams.
C13_Witness ==
    \E c \in Calls :
        /\ pc[c] = "loop"
        /\ weights = WeightsOnnx
        /\ dataset[c].loader = "LoadStreams"
        /\ dataset[c].len = 2
        /\ warm[c] = 2

\* C14: the classification of a source whose extension is a known image or
\* video extension has is_file and valid set; that of a purely numeric
\* source has webcam set; and valid is set exactly when one of is_file,
\* is_url, webcam, screenshot is.
C14_ClassificationFlags ==
    \A c \in Calls :
        classified[c] =>
            LET s == source[c]
                info == source_info[c]
            IN  /\ Ext(s) \in (IMG_FORMATS \cup VID_FORMATS) =>
                     info.is_file /\ info.valid
                /\ IsNumeric(s) => info.webcam
                /\ info.valid <=> (info.is_file \/ info.is_url
                                     \/ info.webcam \/ info.screenshot)

\* The numeric source '0' was classified: a webcam, not a file, valid.
C14_Witness ==
    \E c \in Calls :
        /\ classified[c]
        /\ source[c] = SrcCam
        /\ source_info[c].webcam
        /\ ~source_info[c].is_file
        /\ source_info[c].valid

\* The frame source of the call yields image records only, at least one.
ImageRun(c) ==
    /\ dataset[c].frames # << >>
    /\ \A k \in DOMAIN dataset[c].frames : dataset[c].frames[k].mode = "image"

\* The output path line 195 computes for the k-th record: the record's file
\* name under the run directory.
OutputPath(c, k) == << save_dir[c], dataset[c].frames[k].names[1] >>

\* C15: when a call over K image records has returned its run directory, the
\* K output paths are pairwise distinct and the directory holds K files.
C15_DistinctImageFiles ==
    \A c \in Calls :
        (pc[c] = "done" /\ result[c] # 0 /\ ImageRun(c)) =>
            /\ \A j, k \in DOMAIN dataset[c].frames :
                   j # k => OutputPath(c, j) # OutputPath(c, k)
            /\ Exists(fs, save_dir[c])
            /\ Cardinality(fs[save_dir[c]]) = Len(dataset[c].frames)

\* C16: once a POST has been answered, with success or with a failure, the
\* file the request saved under uploads does not exist.
C16_UploadRemoved ==
    \A c \in Calls : answer[c].status # 0 => upload[c] # "saved"

\* A request whose upload was saved and whose detection failed has been
\* answered 500; the upload has been removed.
C16_Witness ==
    \E c \in Calls :
        /\ answer[c] = [status |-> 500, stage |-> "detect"]
        /\ result[c] = 0
        /\ upload[c] = "removed"

\* The loaders are chosen by priority: the stream loader iff webcam, else
\* the screen-capture loader iff screenshot, else the image/video loader.
ByPriority(c) ==
    LET info == source_info[c]
        loader == dataset[c].loader
    IN  /\ loader \in {"LoadStreams", "LoadScreenshots", "LoadImages"}
        /\ loader = "LoadStreams" <=> info.webcam
        /\ loader = "LoadScreenshots" <=> (~info.webcam /\ info.screenshot)
        /\ loader = "LoadImages" <=> (~info.webcam /\ ~info.screenshot)

KnownExt(s) == Ext(s) \in (IMG_FORMATS \cup VID_FORMATS)

\* C17 as stated: selection by priority, and every source with a known
\* extension that is not webcam-flagged is read by the image/video loader,
\* also when its name begins with 'screen'.
C17_FilesReadByImageLoader ==
    \A c \in Calls :
        WarmedUp(c) =>
            /\ ByPriority(c)
            /\ (KnownExt(source[c]) /\ ~source_info[c].webcam) =>
                   dataset[c].loader = "LoadImages"

\* C17: selection by priority; every source with a known extension that is
\* neither webcam- nor screenshot-flagged is read by the image/video loader,
\* and one whose name begins with 'screen' and is not webcam-flagged is read
\* by the screen-capture loader.
C17_LoaderByPriority ==
    \A c \in Calls :
        WarmedUp(c) =>
            /\ ByPriority(c)
            /\ ( KnownExt(source[c]) /\ ~source_info[c].webcam
                   /\ ~StartsWith(Lower(source[c]), ScreenPrefix) ) =>
                   dataset[c].loader = "LoadImages"
            /\ ( KnownExt(source[c]) /\ ~source_info[c].webcam
                   /\ StartsWith(Lower(source[c]), ScreenPrefix) ) =>
                   dataset[c].loader = "LoadScreenshots"

\* 'screen.png', a file by its extension, is being read by the
\* screen-capture loader.
C17_Witness ==
    \E c \in Calls :
        /\ pc[c] = "loop"
        /\ source[c] = SrcScreenPng
        /\ source_info[c].is_file
        /\ source_info[c].screenshot
        /\ dataset[c].loader = "LoadScreenshots"

\* The stages at which a request fails after its upload passed validation.
AfterValidation == {"save", "detect", "empty", "nourl", "original"}

\* C18: an answered POST has status 400 exactly when upload validation turned
\* it down (no file part, empty file name, unsupported type, file too
\* large), and status 500 exactly when it failed after validation passed.
C18_StatusByStage ==
    \A c \in Calls :
        answer[c].status # 0 =>
            /\ answer[c].status = 400 <=> answer[c].stage = "validation"
            /\ answer[c].status = 500 <=> answer[c].stage \in AfterValidation

====
